---- MODULE Spec2Model ----
(***************************************************************************)
(* blaze-core: the ATerm -> instruction lowering of blaze/plan.py          *)
(* (InstructionGen) and the datashape grammar actions and type builder of  *)
(* blaze/datashape/parser.py (p_* functions, build_ds).                    *)
(***************************************************************************)
EXTENDS Integers, Sequences, FiniteSets, TLC

VARIABLES
    n,             \* InstructionGen.n
    _vartable,     \* InstructionGen._vartable : term -> key | Constant
    _instructions, \* InstructionGen._instructions
    err,           \* the exception the last visit raised, or NoError
    term,          \* the argument of the last visit call, or NoTerm
    visited,       \* the terms visit was called on during that call, in order
    pattern,       \* parse(pattern): the source text, as its lexemes
    input,         \* parser: the tokens not yet read
    stack,         \* parser: the LR stack of (symbol, semantic value)
    res,           \* parser: what parser(pattern) returned
    ds,            \* parse(): what build_ds(res) returned or raised
    test_a,        \* test_trailing_semi: a, the result of its first parse
    graph          \* BlazeVisitor: the graph node handed to it

planvars == <<n, _vartable, _instructions, err, term, visited, graph>>
parservars == <<pattern, input, stack, res, ds, test_a>>
vars == <<n, _vartable, _instructions, err, term, visited, pattern, input, stack,
          res, ds, test_a, graph>>

RECURSIVE visit(_, _)
RECURSIVE visitList(_, _)
RECURSIVE build_ds(_)

----------------------------------------------------------------------------
(* Bounds *)

NumArrays == 3      \* distinct array leaves (graph nodes) of a compilation
MaxN == 3           \* visits on a used InstructionGen go on while n < MaxN
MaxComponents == 3  \* comma-separated components of a generated right-hand side
MaxParams == 2      \* type parameters of a generated declaration
MaxFields == 2      \* fields of a generated record literal

----------------------------------------------------------------------------
(* ATerm values (blaze.expr.paterm), as plan.py builds and reads them.     *)
(* A term is one record shape: cls is the Python class, label the label of *)
(* an ATerm or of an AAppl's spine, n the value of a literal, args the     *)
(* children, id the graph node identity the annotation carries (0: none),  *)
(* ty the annotation's dshape text, meta the rest of the annotation.       *)

NoMeta == [executor_id |-> "", backend |-> "", has_lhs |-> FALSE]

NoTy == ""

DshapeTy == "2, 2, int32"

NewATerm(label, id) ==
    [cls |-> "ATerm", label |-> label, n |-> 0, args |-> <<>>, id |-> id,
     ty |-> IF id = 0 THEN NoTy ELSE DshapeTy, meta |-> NoMeta]

NewAInt(v, id) ==
    [cls |-> "AInt", label |-> "", n |-> v, args |-> <<>>, id |-> id,
     ty |-> DshapeTy, meta |-> NoMeta]

NewAFloat(v, id) ==
    [cls |-> "AFloat", label |-> "", n |-> v, args |-> <<>>, id |-> id,
     ty |-> DshapeTy, meta |-> NoMeta]

NewAAppl(label, args, id, meta) ==
    [cls |-> "AAppl", label |-> label, n |-> 0, args |-> args, id |-> id,
     ty |-> DshapeTy, meta |-> meta]

NoTerm == NewATerm("", 0)

----------------------------------------------------------------------------
(* Instructions and VariableTable entries *)

Constant(v) == [ty |-> "Constant", n |-> v]

Key(k) == "%" \o ToString(k)

None == "None"

Instruction(fn, datashape, args, lhs) ==
    [fn |-> fn, datashape |-> datashape, args |-> args, lhs |-> lhs]

EmptyTable == [t \in {} |-> t]

SetItem(table, k, v) ==
    [t \in DOMAIN table \cup {k} |-> IF t = k THEN v ELSE table[t]]

\* blaze.rts.funcs.lookup(normal_term): the function's textual identity
lookup(op) ==
    CASE op.label = "Add" -> "<ufunc 'add'>"
      [] op.label = "Mul" -> "<ufunc 'multiply'>"
      [] OTHER -> "<ufunc '" \o op.label \o "'>"

\* the executors table handed to InstructionGen.__init__
executors == [e \in {"ex0"} |-> "<executor " \o e \o ">"]

get_datashape(t) == t.ty

Raise(self, exc) == [self EXCEPT !.err = exc]

NoError == "none"

----------------------------------------------------------------------------
(* InstructionGen: self is the record of the object's fields *)

InstructionGen == [n |-> 0, _vartable |-> EmptyTable, _instructions |-> <<>>,
                   err |-> NoError, visited |-> <<>>]

\* var, were it to reuse the name of a term that already has an entry
var_reuse(self, t) ==
    IF t \in DOMAIN self._vartable THEN self
    ELSE [self EXCEPT !._vartable = SetItem(@, t, Key(self.n)), !.n = @ + 1]

\* var, were it to leave the counter where it is
var_frozen(self, t) ==
    [self EXCEPT !._vartable = SetItem(@, t, Key(self.n))]

var(self, t) ==
    [self EXCEPT !._vartable = SetItem(@, t, Key(self.n)), !.n = @ + 1]

\* _Arithmetic, were it to take the result's name before visiting the operands
_Arithmetic_name_first(self, t) ==
    LET op == t.args[1]
        args == Tail(t.args)
        key == Key(self.n)
        s1 == visitList(var(self, t), args)
    IN  IF s1.err # NoError THEN s1
        ELSE IF \E i \in 1..Len(args) : args[i] \notin DOMAIN s1._vartable
        THEN Raise(s1, "KeyError")
        ELSE LET fn == lookup(op)
                 fargs == [i \in 1..Len(args) |-> s1._vartable[args[i]]]
                 inst == Instruction(fn, get_datashape(t), fargs, key)
             IN  [s1 EXCEPT !._instructions = Append(@, inst)]

_Arithmetic(self, t) ==
    LET op == t.args[1]
        args == Tail(t.args)
        s1 == visitList(self, args)
    IN  IF s1.err # NoError THEN s1
        ELSE IF \E i \in 1..Len(args) : args[i] \notin DOMAIN s1._vartable
        THEN Raise(s1, "KeyError")
        ELSE LET fn == lookup(op)
                 fargs == [i \in 1..Len(args) |-> s1._vartable[args[i]]]
                 key == Key(s1.n)
                 s2 == var(s1, t)
                 inst == Instruction(fn, get_datashape(t), fargs, key)
             IN  [s2 EXCEPT !._instructions = Append(@, inst)]

_Array(self, t) == var(self, t)

_Assign(self, t) == self

\* _Slice, were it to visit its children as _Arithmetic and _Executor do
_Slice_visits(self, t) == visitList(self, t.args)

_Slice(self, t) == self

_Executor(self, t) ==
    LET has_lhs == t.meta.has_lhs
    IN  IF t.meta.executor_id \notin DOMAIN executors THEN Raise(self, "KeyError")
        ELSE
        LET executor == executors[t.meta.executor_id]
            s1 == visitList(self, t.args)
        IN  IF s1.err # NoError THEN s1
            ELSE IF \E i \in 1..Len(t.args) : t.args[i] \notin DOMAIN s1._vartable
            THEN Raise(s1, "KeyError")
            ELSE LET all == [i \in 1..Len(t.args) |-> s1._vartable[t.args[i]]]
                 IN  IF has_lhs /\ Len(all) = 0 THEN Raise(s1, "IndexError")
                     ELSE
                     LET fargs == IF has_lhs THEN SubSeq(all, 1, Len(all) - 1)
                                  ELSE all
                         lhs == IF has_lhs THEN all[Len(all)] ELSE None
                         inst == Instruction(executor, get_datashape(t), fargs, lhs)
                     IN  [s1 EXCEPT !._instructions = Append(@, inst)]

\* AAppl, were its last branch to ignore the term
AAppl_ignores(self, t) ==
    LET label == t.label
    IN  CASE label = "Arithmetic" -> _Arithmetic(self, t)
          [] label = "Array" -> _Array(self, t)
          [] label = "Slice" -> _Slice(self, t)
          [] label = "Assign" -> _Assign(self, t)
          [] label = "Executor" -> _Executor(self, t)
          [] OTHER -> self

AAppl(self, t) ==
    LET label == t.label
    IN  CASE label = "Arithmetic" -> _Arithmetic(self, t)
          [] label = "Array" -> _Array(self, t)
          [] label = "Slice" -> _Slice(self, t)
          [] label = "Assign" -> _Assign(self, t)
          [] label = "Executor" -> _Executor(self, t)
          [] OTHER -> Raise(self, "NotImplementedError")

AInt(self, t) == [self EXCEPT !._vartable = SetItem(@, t, Constant(t.n))]

AFloat(self, t) == [self EXCEPT !._vartable = SetItem(@, t, Constant(t.n))]

ATerm(self, t) == self

\* MroVisitor.visit on one term: dispatch on the class name
visit(self, t) ==
    LET s == [self EXCEPT !.visited = Append(@, t)]
    IN  CASE t.cls = "AAppl" -> AAppl(s, t)
          [] t.cls = "AInt" -> AInt(s, t)
          [] t.cls = "AFloat" -> AFloat(s, t)
          [] t.cls = "ATerm" -> ATerm(s, t)
          [] OTHER -> Raise(s, "NoVisitor")

\* MroVisitor.visit on a list: each element in order; an exception ends it
visitList(self, ts) ==
    IF ts = <<>> \/ self.err # NoError THEN self
    ELSE visitList(visit(self, Head(ts)), Tail(ts))

----------------------------------------------------------------------------
(* The term trees handed to the generator: what BlazeVisitor builds from a *)
(* graph (Op, Literal, Indexable, Slice, IndexNode, Assign), and Executor  *)
(* terms.                                                                  *)

ArrayIds == 1..NumArrays

Ops == {"Add", "Mul"}

\* BlazeVisitor.Indexable
Indexable(id) == NewAAppl("Array", <<>>, id, NoMeta)

\* BlazeVisitor.Literal: int -> AInt, float -> AFloat, otherwise ATerm
Literal(vtype, val, id) ==
    IF vtype = "int" THEN NewAInt(val, id)
    ELSE IF vtype = "float" THEN NewAFloat(val, id)
    ELSE NewATerm(val, id)

\* BlazeVisitor.Op: a classified operator is Classifier(OpName, children...)
Op(classifier, opname, children) ==
    IF classifier # None
    THEN NewAAppl(classifier, <<NewATerm(opname, 0)>> \o children, 0, NoMeta)
    ELSE NewAAppl(opname, children, 0, NoMeta)

\* BlazeVisitor.IndexNode
IndexNode(operands) == NewAAppl("Index", operands, 0, NoMeta)

\* BlazeVisitor.Assign
Assign(operands) == NewAAppl("Assign", operands, 0, NoMeta)

NewExecutor(args, has_lhs) ==
    NewAAppl("Executor", args, 0,
             [executor_id |-> "ex0", backend |-> "numba", has_lhs |-> has_lhs])

NewSlice(array, start, stop, step) ==
    NewAAppl("Slice", <<array, start, stop, step>>, 0, NoMeta)

Arrays == {Indexable(i) : i \in ArrayIds}

\* Blaze graph nodes as BlazeVisitor reads them; an absent operand is None
NoGraph == [kind |-> "NoneType"]

GraphLiteral(vtype, val, id) == [kind |-> "Literal", vtype |-> vtype, val |-> val, id |-> id]

GraphSlice(operands, id) == [kind |-> "Slice", operands |-> operands, id |-> id]

\* the truth value Python gives a graph node, a term or None
Truthy(x) == x # NoGraph

\* BlazeVisitor.visit on the operands of a Slice
BlazeVisitor_visit(g) ==
    IF g.kind = "Literal" THEN Literal(g.vtype, g.val, g.id) ELSE Indexable(g.id)

\* Slice, were it to leave the absent bounds out
Slice_compact(g) ==
    NewAAppl("Slice",
             <<BlazeVisitor_visit(g.operands[1])>>
             \o SelectSeq([i \in 1..3 |->
                             IF Truthy(g.operands[i + 1])
                             THEN BlazeVisitor_visit(g.operands[i + 1])
                             ELSE NoGraph], Truthy),
             g.id, NoMeta)

\* BlazeVisitor.Slice
Slice(g) ==
    LET array == g.operands[1]
        start == IF Truthy(g.operands[2]) THEN BlazeVisitor_visit(g.operands[2])
                 ELSE g.operands[2]
        stop == IF Truthy(g.operands[3]) THEN BlazeVisitor_visit(g.operands[3])
                ELSE g.operands[3]
        step == IF Truthy(g.operands[4]) THEN BlazeVisitor_visit(g.operands[4])
                ELSE g.operands[4]
    IN  NewAAppl("Slice",
                 <<BlazeVisitor_visit(array),
                   IF Truthy(start) THEN start ELSE NewATerm(None, 0),
                   IF Truthy(stop) THEN stop ELSE NewATerm(None, 0),
                   IF Truthy(step) THEN step ELSE NewATerm(None, 0)>>,
                 g.id, NoMeta)

\* a bound of a slice: absent, or a literal
Bounds == {NoGraph, GraphLiteral("int", 7, 101), GraphLiteral("float", 5, 102),
           GraphLiteral("str", "x", 103)}

SliceGraphs ==
    {GraphSlice(<<[kind |-> "Indexable", id |-> i], b1, b2, b3>>, 200 + i) :
       i \in ArrayIds, b1 \in Bounds, b2 \in Bounds, b3 \in Bounds}

IntLeaf == Literal("int", 7, 101)

FloatLeaf == Literal("float", 5, 102)

StringLeaf == Literal("str", "x", 103)

Literals == {IntLeaf, FloatLeaf, StringLeaf}

Leaves == Arrays \cup Literals

Pairs(S) == {<<x, y>> : x \in S, y \in S}

UpTo2(S) == {<<>>} \cup {<<x>> : x \in S} \cup Pairs(S)

Arith(S) == {Op("Arithmetic", o, a) : o \in Ops, a \in Pairs(S)}

Exec(S) == {NewExecutor(a, h) : a \in UpTo2(S), h \in BOOLEAN}

Slices == {NewSlice(a, s, NewATerm(None, 0), NewATerm(None, 0)) :
              a \in Arrays, s \in {NewATerm(None, 0), IntLeaf}}

Assigns == {Assign(<<a, x>>) : a \in Arrays, x \in {IntLeaf, Indexable(1)}}

\* labels AAppl has no branch for
Unhandled == {IndexNode(<<a, IntLeaf>>) : a \in Arrays}
             \cup {Op("Math", "Sin", <<a>>) : a \in Arrays}
             \cup {Op("Reduction", "Sum", <<a>>) : a \in Arrays}

Depth1 == Arith(Leaves) \cup Exec(Leaves) \cup Slices \cup Assigns \cup Unhandled

\* the operands of a term of depth 2
Inner == Arrays \cup {IntLeaf, StringLeaf}
         \cup Arith(Arrays \cup {IntLeaf})
         \cup {NewSlice(Indexable(1), IntLeaf, NewATerm(None, 0), NewATerm(None, 0)),
               Assign(<<Indexable(1), IntLeaf>>),
               NewExecutor(<<Indexable(1), Indexable(2)>>, TRUE),
               IndexNode(<<Indexable(1), IntLeaf>>),
               Op("Math", "Sin", <<Indexable(1)>>)}

Depth2 == Arith(Inner) \cup {NewExecutor(a, h) : a \in Pairs(Inner), h \in BOOLEAN}

Terms == Leaves \cup Depth1 \cup Depth2

\* what is visited on an InstructionGen already in use
Revisits == Leaves
            \cup {Op("Arithmetic", "Add", <<Indexable(1), a>>) : a \in Arrays}
            \cup {NewSlice(Indexable(1), IntLeaf, NewATerm(None, 0), NewATerm(None, 0)),
                  Assign(<<Indexable(1), IntLeaf>>),
                  IndexNode(<<Indexable(1), IntLeaf>>)}

----------------------------------------------------------------------------
(* The state machine of one InstructionGen *)

Self == [n |-> n, _vartable |-> _vartable, _instructions |-> _instructions,
         err |-> err, visited |-> <<>>]

Fresh == Self = InstructionGen /\ term = NoTerm /\ visited = <<>>

Store(s, t) ==
    /\ n' = s.n
    /\ _vartable' = s._vartable
    /\ _instructions' = s._instructions
    /\ err' = s.err
    /\ visited' = s.visited
    /\ term' = t

\* the key a table value has in the dict symbols builds: a Constant object
\* is its own key, a name is the string
SymbolKey(table, t) ==
    IF t.cls \in {"AInt", "AFloat"} THEN table[t] ELSE [name |-> table[t]]

\* InstructionGen.symbols: name -> term
symbols ==
    [k \in {SymbolKey(_vartable, t) : t \in DOMAIN _vartable} |->
        CHOOSE t \in DOMAIN _vartable : SymbolKey(_vartable, t) = k]

\* InstructionGen(executors, have_numbapro).visit(root): one compilation
Compile ==
    /\ Fresh /\ graph = NoGraph
    /\ \E root \in Terms : Store(visit(InstructionGen, root), root)
    /\ UNCHANGED parservars
    /\ UNCHANGED graph

\* a further visit on the same InstructionGen
Visit ==
    /\ ~Fresh
    /\ err = NoError
    /\ n < MaxN
    /\ \E t \in Revisits : Store(visit(Self, t), t)
    /\ UNCHANGED parservars
    /\ UNCHANGED graph

PlanInit ==
    /\ n = InstructionGen.n
    /\ _vartable = InstructionGen._vartable
    /\ _instructions = InstructionGen._instructions
    /\ err = InstructionGen.err
    /\ visited = InstructionGen.visited
    /\ term = NoTerm
    /\ graph = NoGraph

\* parse() before parser(pattern) has returned, and before build_ds has
NotReturned == [kind |-> "pending"]

NotBuilt == [T |-> "pending"]

\* test_trailing_semi before a is assigned
NoCall == [pattern |-> <<>>, res |-> NotReturned, ds |-> NotBuilt]

ParserIdle ==
    /\ pattern = <<>> /\ input = <<>> /\ stack = <<>>
    /\ res = NotReturned /\ ds = NotBuilt /\ test_a = NoCall

Init == PlanInit /\ ParserIdle

\* BlazeVisitor().visit(graph) on a Slice node: term is the ATerm returned
Annotate ==
    /\ graph # NoGraph /\ term = NoTerm
    /\ term' = Slice(graph)
    /\ UNCHANGED <<n, _vartable, _instructions, err, visited, graph>>
    /\ UNCHANGED parservars

AnnotateInit ==
    /\ n = InstructionGen.n
    /\ _vartable = InstructionGen._vartable
    /\ _instructions = InstructionGen._instructions
    /\ err = InstructionGen.err
    /\ visited = InstructionGen.visited
    /\ term = NoTerm
    /\ graph \in SliceGraphs
    /\ ParserIdle

AnnotateNext == Annotate

AnnotateSpec == AnnotateInit /\ [][AnnotateNext]_vars

Next == Compile \/ Visit

Spec == Init /\ [][Next]_vars

----------------------------------------------------------------------------
(* Vocabulary of the lowering properties *)

HandledLabels == {"Arithmetic", "Array", "Slice", "Assign", "Executor"}

IsArray(t) == t.cls = "AAppl" /\ t.label = "Array"

IsArith(t) == t.cls = "AAppl" /\ t.label = "Arithmetic"

IsExec(t) == t.cls = "AAppl" /\ t.label = "Executor"

IsNoOp(t) == t.cls = "AAppl" /\ t.label \in {"Slice", "Assign"}

IsUnhandled(t) == t.cls = "AAppl" /\ t.label \notin HandledLabels

IsLiteral(t) == t.cls \in {"AInt", "AFloat"} \/ (t.cls = "ATerm" /\ t.id # 0)

LiteralValue(t) == IF t.cls = "ATerm" THEN t.label ELSE t.n

Emits(t) == IsArith(t) \/ IsExec(t)

\* the children the generator visits: the operands of an Arithmetic term
\* (its first argument is the operator's name) and of an Executor term
Operands(t) ==
    IF IsArith(t) THEN Tail(t.args) ELSE IF IsExec(t) THEN t.args ELSE <<>>

Range(f) == {f[i] : i \in DOMAIN f}

RECURSIVE AllHandled(_)
AllHandled(t) ==
    /\ t.cls = "AAppl" => t.label \in HandledLabels
    /\ \A i \in 1..Len(t.args) : AllHandled(t.args[i])

\* x is t or an operand, at any depth, of t
RECURSIVE Under(_, _)
Under(t, x) ==
    t = x \/ \E i \in 1..Len(Operands(t)) : Under(Operands(t)[i], x)

RECURSIVE ArithTree(_)
ArithTree(t) ==
    \/ IsArray(t)
    \/ IsArith(t) /\ \A i \in 1..Len(Operands(t)) : ArithTree(Operands(t)[i])

\* The reference lowering: the nodes of a tree in post-order; the k-th node
\* is named %(k-1); one instruction per Arithmetic node, in that order.
RECURSIVE PostOrder(_)
RECURSIVE PostOrderAll(_)
PostOrderAll(ts) ==
    IF ts = <<>> THEN <<>> ELSE PostOrder(Head(ts)) \o PostOrderAll(Tail(ts))

PostOrder(t) == PostOrderAll(Operands(t)) \o <<t>>

DistinctLeaves(t) ==
    LET leaves == SelectSeq(PostOrder(t), IsArray)
    IN  \A i, j \in 1..Len(leaves) : leaves[i] = leaves[j] => i = j

RefName(root, x) ==
    LET po == PostOrder(root)
    IN  Key((CHOOSE k \in 1..Len(po) : po[k] = x) - 1)

RefTable(root) == [x \in Range(PostOrder(root)) |-> RefName(root, x)]

RefInstructions(root) ==
    LET ar == SelectSeq(PostOrder(root), IsArith)
    IN  [k \in 1..Len(ar) |->
            Instruction(lookup(ar[k].args[1]), ar[k].ty,
                        [i \in 1..Len(Operands(ar[k])) |->
                            RefName(root, Operands(ar[k])[i])],
                        RefName(root, ar[k]))]

Entries(table, ts) == [i \in 1..Len(ts) |-> table[ts[i]]]

A1 == Indexable(1)

A2 == Indexable(2)

A3 == Indexable(3)

----------------------------------------------------------------------------
(* Properties of the lowering *)

\* C1: when the visit of a term tree whose applied labels are all handled
\* and whose leaves are int, float or string terms builds the instruction of
\* an Arithmetic or Executor term, every operand has a VariableTable entry:
\* the lookup self._vartable[a] never raises KeyError.
C1_OperandLookupNeverMisses ==
    (term # NoTerm /\ AllHandled(term)) => err # "KeyError"

\* C2: lowering a tree of Arithmetic terms over pairwise distinct Array
\* leaves with a fresh InstructionGen equals the reference post-order
\* lowering: one name per node in post-order, one instruction per Arithmetic
\* term in post-order, arguments the operands' names left to right, the
\* result the node's own (fresh) name.
C2_PostOrderLowering ==
    [][(Fresh /\ IsArith(term') /\ ArithTree(term') /\ DistinctLeaves(term'))
        => /\ err' = NoError
           /\ n' = Len(PostOrder(term'))
           /\ _vartable' = RefTable(term')
           /\ _instructions' = RefInstructions(term')
           /\ \A k \in 1..Len(_instructions') :
                /\ \A i \in 1..Len(_instructions'[k].args) :
                      _instructions'[k].args[i] # _instructions'[k].lhs
                /\ \A j \in 1..(k - 1) :
                      _instructions'[j].lhs # _instructions'[k].lhs]_vars

\* a + b * c: %3 = multiply(%1 %2), %4 = add(%0 %3)
C2_Witness ==
    /\ term = Op("Arithmetic", "Add", <<A1, Op("Arithmetic", "Mul", <<A2, A3>>)>>)
    /\ n = 5
    /\ _vartable[A1] = "%0" /\ _vartable[A2] = "%1" /\ _vartable[A3] = "%2"
    /\ _instructions =
         <<Instruction("<ufunc 'multiply'>", DshapeTy, <<"%1", "%2">>, "%3"),
           Instruction("<ufunc 'add'>", DshapeTy, <<"%0", "%3">>, "%4")>>

\* C3 as claimed: visiting an Array term that already has an entry reuses the
\* entry's name and issues none; for Add(a, a) one variable is allocated for
\* a (two names in all: a's and the result's).
C3_ArrayNameReused ==
    [][/\ (IsArray(term') /\ term' \in DOMAIN _vartable)
            => (_vartable'[term'] = _vartable[term'] /\ n' = n)
       /\ (Fresh /\ \E a \in Arrays, o \in Ops :
                       term' = Op("Arithmetic", o, <<a, a>>))
            => n' = 2]_vars

\* C3 as the code has it: every visit of an Array term issues the next name
\* and overwrites the term's entry with it, also when the term already has
\* one; for Add(a, a) two names are issued for a, the table keeps the later
\* one and both arguments of the instruction are that name.
C3_ArrayNameReissued ==
    [][/\ (IsArray(term') /\ term' \in DOMAIN _vartable)
            => /\ n' = n + 1
               /\ _vartable'[term'] = Key(n)
               /\ _vartable'[term'] # _vartable[term']
               /\ DOMAIN _vartable' = DOMAIN _vartable
               /\ \A x \in DOMAIN _vartable \ {term'} : _vartable'[x] = _vartable[x]
               /\ _instructions' = _instructions
       /\ \A a \in Arrays, o \in Ops :
            (Fresh /\ term' = Op("Arithmetic", o, <<a, a>>))
            => /\ n' = 3
               /\ _vartable'[a] = "%1"
               /\ Len(_instructions') = 1
               /\ _instructions'[1].args = <<"%1", "%1">>
               /\ _instructions'[1].lhs = "%2"]_vars

C3_Witness ==
    /\ term = Op("Arithmetic", "Add", <<A1, A1>>)
    /\ visited = <<term, A1, A1>>
    /\ n = 3
    /\ _vartable[A1] = "%1"

\* C4: visiting an int, float or string leaf maps the term to a constant
\* holding its value, and changes neither the counter nor the instructions.
C4_LiteralIsConstant ==
    [][IsLiteral(term')
        => /\ term' \in DOMAIN _vartable'
           /\ _vartable'[term'] = Constant(LiteralValue(term'))
           /\ n' = n
           /\ _instructions' = _instructions]_vars

\* C5: lowering an Executor term (over handled labels; with a last child
\* when it has an output) visits its children and appends exactly one
\* instruction for the executor of the metadata's id: with the has-output
\* flag its result is the last child's entry and its arguments the entries
\* of the other children in order; without, its arguments are the entries of
\* all children and it has no result.
C5_ExecutorInstruction ==
    [][(IsExec(term') /\ AllHandled(term')
          /\ (term'.meta.has_lhs => Len(term'.args) >= 1))
        => LET args == term'.args
               k == Len(_instructions')
           IN  /\ err' = NoError
               /\ \A i \in 1..Len(args) : args[i] \in Range(visited')
               /\ k >= 1
               /\ Len(SelectSeq(visited', IsExec)) = 1
                    => k = Len(_instructions) + Len(SelectSeq(visited', IsArith)) + 1
               /\ _instructions'[k].fn = executors[term'.meta.executor_id]
               /\ \A i \in 1..Len(args) : args[i] \in DOMAIN _vartable'
               /\ IF term'.meta.has_lhs
                  THEN /\ _instructions'[k].lhs = _vartable'[args[Len(args)]]
                       /\ _instructions'[k].args =
                            Entries(_vartable', SubSeq(args, 1, Len(args) - 1))
                  ELSE /\ _instructions'[k].lhs = None
                       /\ _instructions'[k].args = Entries(_vartable', args)]_vars

\* C6: visiting a bare Array leaf emits no instruction; visiting an Assign
\* or Slice term leaves the instructions, the table and the counter as
\* they were.
C6_LeafAndNoOps ==
    [][/\ IsArray(term') => (_instructions' = _instructions /\ err' = NoError)
       /\ IsNoOp(term')
            => /\ _instructions' = _instructions
               /\ _vartable' = _vartable
               /\ n' = n
               /\ err' = NoError]_vars

\* a Slice visited on a generator that holds one variable: nothing but the
\* Slice itself was visited
C6_Witness ==
    /\ IsNoOp(term) /\ term.label = "Slice"
    /\ visited = <<term>>
    /\ n = 1 /\ DOMAIN _vartable = {A1}
    /\ _instructions = <<>>

\* C7: an applied term with an unhandled label that is visited, as the root
\* or as an operand of an Arithmetic or Executor term, raises
\* NotImplementedError; the visit ends there, and no instruction and no
\* result name is issued for the term or for a term it is an operand of:
\* the instructions added are those of the terms completed before it.
C7_UnhandledAborts ==
    [][/\ \A i \in 1..Len(visited') :
            IsUnhandled(visited'[i])
            => /\ err' = "NotImplementedError"
               /\ i = Len(visited')
               /\ Len(_instructions') = Len(_instructions)
                    + Cardinality({j \in 1..Len(visited') :
                          Emits(visited'[j]) /\ ~Under(visited'[j], visited'[i])})
               /\ SubSeq(_instructions', 1, Len(_instructions)) = _instructions
               /\ \A j \in 1..Len(visited') :
                    Under(visited'[j], visited'[i])
                    => visited'[j] \notin DOMAIN _vartable'
       /\ IsUnhandled(term')
            => (err' = "NotImplementedError" /\ _instructions' = _instructions)
       /\ \A k \in 1..Len(Operands(term')) :
            (/\ IsUnhandled(Operands(term')[k])
             /\ \A j \in 1..(k - 1) : Operands(term')[j] \in Leaves)
            => (err' = "NotImplementedError" /\ _instructions' = _instructions)]_vars

\* (a + b) + Sin(a): the instruction of a + b is there, none for the root
C7_Witness ==
    /\ term = Op("Arithmetic", "Add",
                 <<Op("Arithmetic", "Add", <<A1, A2>>), Op("Math", "Sin", <<A1>>)>>)
    /\ err = "NotImplementedError"
    /\ Len(_instructions) = 1
    /\ term \notin DOMAIN _vartable


----------------------------------------------------------------------------
(* blaze/datashape/parser.py: Python values of the parse tree.  kind is    *)
(* the Python type build_ds tests with isinstance; a token's value is a    *)
(* Python str or int.                                                      *)

PyInt(i) == [kind |-> "int", i |-> i]

PyStr(s) == [kind |-> "str", s |-> s]

PyNone == [kind |-> "NoneType"]

PyList(items) == [kind |-> "list", items |-> items]

bittype(name) == [kind |-> "bit", name |-> name]

tyinst(conargs) == [kind |-> "tyinst", conargs |-> conargs]

tydecl(lhs, rhs) == [kind |-> "tydecl", lhs |-> lhs, rhs |-> rhs]

tyappl(head, args) == [kind |-> "tyappl", head |-> head, args |-> args]

tyrecord(elts) == [kind |-> "tyrecord", elts |-> elts]

simpletype(nargs, tycon, tyvars) ==
    [kind |-> "simpletype", nargs |-> nargs, tycon |-> tycon, tyvars |-> tyvars]

(* coretypes values (import coretypes as T), kept as constructor terms *)

T_Fixed(i) == [T |-> "Fixed", val |-> i]

T_TypeVar(s) == [T |-> "TypeVar", symbol |-> s]

T_IntegerConstant(i) == [T |-> "IntegerConstant", val |-> i]

T_StringConstant(s) == [T |-> "StringConstant", val |-> s]

T_DataShape(parameters) == [T |-> "DataShape", parameters |-> parameters]

T_Record(fields) == [T |-> "Record", fields |-> fields]

\* T.Type._registry[name]
T_registry(name) == [T |-> "Primitive", name |-> name]

\* an exception in place of a value
Raised(exc) == [T |-> "raise", exc |-> exc]

IsRaised(v) == v.T = "raise"

\* reserved[head](*args)
reserved == [h \in {"Record", "Range", "Either", "Varchar", "Union", "Option",
                    "string"} |-> h]

T_Apply(con, args) == [T |-> con, args |-> args]

----------------------------------------------------------------------------
(* Lexer *)

bits == {"bool", "blob", "int", "float", "int8", "int16", "int32", "int64",
         "uint8", "uint16", "uint32", "uint64", "float16", "float32",
         "float64", "float128", "complex64", "complex128", "complex256",
         "string", "object", "datetime64", "timedelta64"}

Token(type, value) == [type |-> type, value |-> value]

\* the t_EQUALS .. t_RBRACE rules and the literals
Punctuation ==
    [l \in {"=", ",", ":", ";", "{", "}", "(", ")"} |->
        CASE l = "=" -> "EQUALS" [] l = "," -> "COMMA" [] l = ":" -> "COLON"
          [] l = ";" -> "SEMI" [] l = "{" -> "LBRACE" [] l = "}" -> "RBRACE"
          [] OTHER -> l]

\* int(t.value) on the numerals of the patterns
Numerals == [l \in {"2", "3"} |-> IF l = "2" THEN 2 ELSE 3]

\* t.value[1:-1] on the quoted strings of the patterns
Quoted == [l \in {"'x'"} |-> "x"]

t_TYPE(l) == Token("TYPE", PyStr(l))

t_NAME(l) == Token(IF l \in bits THEN "BIT" ELSE "NAME", PyStr(l))

t_NUMBER(l) == Token("NUMBER", PyInt(Numerals[l]))

t_STRING(l) == Token("STRING", PyStr(Quoted[l]))

\* one lexeme to its token, by the rule whose pattern matches it
token(l) ==
    CASE l = "type" -> t_TYPE(l)
      [] l \in DOMAIN Punctuation -> Token(Punctuation[l], PyStr(l))
      [] l \in DOMAIN Numerals -> t_NUMBER(l)
      [] l \in DOMAIN Quoted -> t_STRING(l)
      [] OTHER -> t_NAME(l)

lexer(text) == [i \in 1..Len(text) |-> token(text[i])]

----------------------------------------------------------------------------
(* build_ds *)

FirstRaised(vs) == vs[CHOOSE i \in 1..Len(vs) :
                        IsRaised(vs[i]) /\ \A j \in 1..(i - 1) : ~IsRaised(vs[j])]

AnyRaised(vs) == \E i \in 1..Len(vs) : IsRaised(vs[i])

build_ds(x) ==
    CASE x.kind = "list" -> Raised("NotImplementedError")
      [] x.kind = "simpletype" -> Raised("NotImplementedError")
      [] x.kind = "tydecl" ->
            IF x.lhs.kind = "simpletype"
            THEN IF Len(x.lhs.tyvars) = 0
                 THEN LET dst == [i \in 1..Len(x.rhs) |-> build_ds(x.rhs[i])]
                      IN  IF AnyRaised(dst) THEN FirstRaised(dst)
                          ELSE IF Len(dst) = 1 THEN dst[1]
                          ELSE T_DataShape(dst)
                 ELSE Raised("TypeError")
            ELSE Raised("NotImplementedError")
      [] x.kind = "tyinst" ->
            LET dst == [i \in 1..Len(x.conargs) |-> build_ds(x.conargs[i])]
            IN  IF AnyRaised(dst) THEN FirstRaised(dst)
                ELSE IF Len(dst) = 1 THEN dst[1]
                ELSE T_DataShape(dst)
      [] x.kind = "bit" -> T_registry(x.name)
      [] x.kind = "int" -> T_Fixed(x)
      [] x.kind = "str" -> T_TypeVar(x)
      [] x.kind = "tyappl" ->
            IF x.head.s \in DOMAIN reserved
            THEN T_Apply(reserved[x.head.s], x.args)
            ELSE Raised("NameError")
      [] x.kind = "tyrecord" ->
            LET fs == [i \in 1..Len(x.elts) |-> build_ds(x.elts[i][2][1])]
            IN  IF AnyRaised(fs) THEN FirstRaised(fs)
                ELSE T_Record([i \in 1..Len(x.elts) |-> <<x.elts[i][1], fs[i]>>])
      [] OTHER -> Raised("ValueError")

----------------------------------------------------------------------------
(* Grammar actions: p1, p2, ... are the values p[1], p[2], ... of the      *)
(* production's symbols, the result is p[0]                                *)

p_top(p1) == p1

p_decl1(p1, p2) == PyList(<<p1, p2>>)

p_decl2(p1) == p1

\* the parameters of the left-hand side left out of the simpletype
p_statement_assign_unparametrized(p2, p4) ==
    tydecl(simpletype(0, p2[1], <<>>), p4)

p_statement_assign(p2, p4) ==
    LET constructid == p2[1]
        parameters == IF Len(p2) = 1 THEN <<>> ELSE Tail(p2)
        rhs == p4
        lhs == simpletype(Len(parameters), constructid, parameters)
    IN  tydecl(lhs, rhs)

p_statement_expr(p1) == tyinst(p1)

p_lhs_expression(p1, p2) == p1 \o p2

p_lhs_expression_node(p1) == <<p1>>

p_rhs_expression_node1(p1) == p1

p_rhs_expression_node2(p1) == <<bittype(p1)>>

p_rhs_expression_node3(p1) == <<p1>>

\* the right operand's components put first
p_rhs_expression_swapped(p1, p3) == p3 \o p1

p_rhs_expression(p1, p3) == p1 \o p3

p_appl_args__appl__record(p1) == <<build_ds(p1[1])>>

p_appl_args__rhs_expression(p2) == <<build_ds(p2[1])>>

p_appl_args__name(p1) == <<T_TypeVar(p1)>>

p_appl_args__bit(p1) == <<T_registry(p1)>>

p_appl_args__number(p1) == <<T_IntegerConstant(p1)>>

p_appl_args__string(p1) == <<T_StringConstant(p1)>>

p_appl_args(p1, p3) == p1 \o p3

p_appl(p1, p3) == <<tyappl(p1, p3)>>

p_record(p2) == <<tyrecord(p2)>>

\* the fields before the ; left out
p_record_opt1_last(p1, p3) == p3

p_record_opt1(p1, p3) == p1 \o p3

p_record_opt2(p1) == <<p1>>

p_record_opt3(p1) == <<>>

p_record_name(p1) == p1

p_record_item1(p1, p4) == <<p1, p4>>

p_record_item2(p1, p3) == <<p1, p3>>

p_empty == PyNone

----------------------------------------------------------------------------
(* The source texts handed to parse(), as sequences of lexemes *)

LeafLexemes == {"a", "int", "2"}

RECURSIVE CommaLists(_)
CommaLists(k) ==
    IF k = 1 THEN {<<l>> : l \in LeafLexemes}
    ELSE {<<l, ",">> \o r : l \in LeafLexemes, r \in CommaLists(k - 1)}

RhsTexts == UNION {CommaLists(k) : k \in 1..MaxComponents}

ShortRhsTexts == CommaLists(1) \cup CommaLists(2)

ParamNames == <<"x", "y", "z", "w">>

\* type T p1 .. pk = rhs
DeclText(k, rhs) == <<"type", "T">> \o SubSeq(ParamNames, 1, k) \o <<"=">> \o rhs

RecordTexts ==
    {<<"{", "c", ":">> \o r \o <<"}">> : r \in ShortRhsTexts}
    \cup {<<"{", "c", ":", "(">> \o r \o <<")", "}">> : r \in ShortRhsTexts}
    \cup {<<"{", "}">>,
          <<"{", "c", ":", "int", ";", "}">>,
          <<"{", "a", ":", "int", ";", "b", ":", "float", "}">>,
          <<"{", "a", ":", "int", ";", "b", ":", "(", "int", ",", "int", ")", ";", "}">>,
          <<"{", "type", ":", "int", ";", "int", ":", "a", "}">>,
          <<"{", "a", ":", "{", "x", ":", "int", "}", "}">>,
          <<"{", "a", ":", "Option", "(", "int", ")", "}">>}

ArgTexts ==
    {<<l>> : l \in LeafLexemes \cup {"'x'"}}
    \cup {<<"(">> \o r \o <<")">> : r \in ShortRhsTexts}
    \cup {<<"{", "c", ":", "int", "}">>,
          <<"Option", "(", "a", ")">>,
          <<"Bogus", "(", "a", ")">>,
          <<"int", ",", "(", "2", ",", "a", ")">>,
          <<"(", "2", ",", "a", ")", ",", "(", "a", ",", "int", ")">>}

ApplTexts ==
    {<<h, "(">> \o a \o <<")">> : h \in {"Option", "Bogus"}, a \in ArgTexts}
    \cup {<<"string", "(", "2", ")">>,
          <<"2", ",", "Varchar", "(", "2", ")">>}

\* name : rhs, the fields of the records of test_trailing_semi
FieldTexts ==
    {<<"a", ":", "int">>, <<"b", ":", "float">>,
     <<"c", ":", "(", "int", ",", "int", ")">>}

\* f1 ; f2 ; ... ; fk
RECURSIVE FieldLists(_)
FieldLists(k) ==
    IF k = 0 THEN {<<>>}
    ELSE IF k = 1 THEN FieldTexts
    ELSE {f \o <<";">> \o r : f \in FieldTexts, r \in FieldLists(k - 1)}

\* { fields } and type a = { fields }
SemiTexts ==
    UNION {{<<"{">> \o fs \o <<"}">>,
            <<"type", "a", "=", "{">> \o fs \o <<"}">>} :
              fs \in UNION {FieldLists(k) : k \in 0..MaxFields}}

\* the record text with a ; after its last field
TrailingSemi(text) == SubSeq(text, 1, Len(text) - 1) \o <<";", "}">>

\* texts that end before a statement is complete
TruncatedTexts ==
    {DeclText(k, <<>>) : k \in 0..MaxParams}
    \cup {r \o <<",">> : r \in ShortRhsTexts}
    \cup {<<"type">>, <<"type", "foo">>, <<"{", "a", ":", "int">>, <<"{", "a", ":">>,
          <<"{">>, <<"Option", "(", "a">>, <<"Option", "(">>,
          <<"{", "c", ":", "(", "int">>}

\* texts with a token no statement can go on with
MalformedTexts ==
    {<<"type", "=", "a">>, <<"a", ",", ",", "b">>, <<"{", "a", ":", "}">>,
     <<"a", "=", "b">>, <<"Option", "(", ")">>, <<"a", "'x'">>, <<"a", ")">>,
     <<"=">>, <<"{", "a", "int", "}">>, <<"type", "T", "=", "a", ";">>}

Patterns ==
    RhsTexts
    \cup SemiTexts
    \cup TruncatedTexts
    \cup MalformedTexts
    \cup {DeclText(k, r) : k \in 0..MaxParams, r \in RhsTexts}
    \cup RecordTexts
    \cup ApplTexts
    \cup {DeclText(k, r) : k \in 0..MaxParams,
                           r \in {<<"{", "a", ":", "x", ";", "b", ":", "y", "}">>,
                                  <<"{", "}">>,
                                  <<"Bogus", "(", "a", ")">>,
                                  <<"Option", "(", "Bogus", "(", "a", ")", ")">>}}
    \cup {<<"a", "2">>, <<"type", "T", "=", "a", "int">>}

----------------------------------------------------------------------------
(* parse(pattern): the LR parser over the grammar of the p_* docstrings.   *)
(* A step shifts the next token or reduces by a production whose symbols   *)
(* are on top of the stack, pushing the value its p_* function computes.   *)

\* the productions of the p_* docstrings
Grammar ==
    {[lhs |-> "top", rhs |-> <<"mod">>],
     [lhs |-> "mod", rhs |-> <<"mod", "mod">>],
     [lhs |-> "mod", rhs |-> <<"stmt">>],
     [lhs |-> "stmt", rhs |-> <<"TYPE", "lhs_expression", "EQUALS", "rhs_expression">>],
     [lhs |-> "stmt", rhs |-> <<"rhs_expression">>],
     [lhs |-> "lhs_expression", rhs |-> <<"lhs_expression", "lhs_expression">>],
     [lhs |-> "lhs_expression", rhs |-> <<"NAME">>],
     [lhs |-> "rhs_expression", rhs |-> <<"appl">>],
     [lhs |-> "rhs_expression", rhs |-> <<"record">>],
     [lhs |-> "rhs_expression", rhs |-> <<"BIT">>],
     [lhs |-> "rhs_expression", rhs |-> <<"NAME">>],
     [lhs |-> "rhs_expression", rhs |-> <<"NUMBER">>],
     [lhs |-> "rhs_expression", rhs |-> <<"rhs_expression", "COMMA", "rhs_expression">>],
     [lhs |-> "appl_args", rhs |-> <<"appl">>],
     [lhs |-> "appl_args", rhs |-> <<"record">>],
     [lhs |-> "appl_args", rhs |-> <<"(", "rhs_expression", ")">>],
     [lhs |-> "appl_args", rhs |-> <<"NAME">>],
     [lhs |-> "appl_args", rhs |-> <<"BIT">>],
     [lhs |-> "appl_args", rhs |-> <<"NUMBER">>],
     [lhs |-> "appl_args", rhs |-> <<"STRING">>],
     [lhs |-> "appl_args", rhs |-> <<"appl_args", "COMMA", "appl_args">>],
     [lhs |-> "appl", rhs |-> <<"NAME", "(", "appl_args", ")">>],
     [lhs |-> "appl", rhs |-> <<"BIT", "(", "appl_args", ")">>],
     [lhs |-> "record", rhs |-> <<"LBRACE", "record_opt", "RBRACE">>],
     [lhs |-> "record_opt", rhs |-> <<"record_opt", "SEMI", "record_opt">>],
     [lhs |-> "record_opt", rhs |-> <<"record_item">>],
     [lhs |-> "record_opt", rhs |-> <<"empty">>],
     [lhs |-> "record_name", rhs |-> <<"NAME">>],
     [lhs |-> "record_name", rhs |-> <<"BIT">>],
     [lhs |-> "record_name", rhs |-> <<"TYPE">>],
     [lhs |-> "record_item", rhs |-> <<"record_name", "COLON", "(", "rhs_expression", ")">>],
     [lhs |-> "record_item", rhs |-> <<"record_name", "COLON", "rhs_expression">>],
     [lhs |-> "empty", rhs |-> <<>>]}

NonTerminals == {g.lhs : g \in Grammar}

\* the nonterminals that derive the empty string
RECURSIVE NullableFrom(_)
NullableFrom(N) ==
    LET more == N \cup {g.lhs : g \in {h \in Grammar :
                                         \A i \in 1..Len(h.rhs) : h.rhs[i] \in N}}
    IN  IF more = N THEN N ELSE NullableFrom(more)

Nullable == NullableFrom({})

\* the terminals the symbols rhs[i..] can begin with, f giving those of the
\* nonterminals
FirstOfRest(f, rhs, i) ==
    UNION {IF rhs[j] \in NonTerminals THEN f[rhs[j]] ELSE {rhs[j]} :
             j \in {k \in i..Len(rhs) : \A l \in i..(k - 1) : rhs[l] \in Nullable}}

RECURSIVE FirstFrom(_)
FirstFrom(f) ==
    LET more == [A \in NonTerminals |->
                   f[A] \cup UNION {FirstOfRest(f, g.rhs, 1) :
                                      g \in {h \in Grammar : h.lhs = A}}]
    IN  IF more = f THEN f ELSE FirstFrom(more)

First == FirstFrom([A \in NonTerminals |-> {}])

\* the terminals that can follow a nonterminal; $end follows the start symbol
RECURSIVE FollowFrom(_)
FollowFrom(f) ==
    LET more == [B \in NonTerminals |->
                   f[B] \cup UNION {UNION {FirstOfRest(First, g.rhs, i + 1)
                                           \cup (IF \A l \in (i + 1)..Len(g.rhs) : g.rhs[l] \in Nullable
                                                 THEN f[g.lhs] ELSE {}) :
                                             i \in {k \in 1..Len(g.rhs) : g.rhs[k] = B}} :
                                      g \in Grammar}]
    IN  IF more = f THEN f ELSE FollowFrom(more)

Follow == FollowFrom([A \in NonTerminals |-> IF A = "top" THEN {"$end"} ELSE {}])

\* an LR item: the production g with the dot after d of its symbols
Item(g, d) == [g |-> g, d |-> d]

RECURSIVE Closure(_)
Closure(I) ==
    LET wanted == {i.g.rhs[i.d + 1] : i \in {j \in I : j.d < Len(j.g.rhs)}}
        more == I \cup {Item(g, 0) : g \in {h \in Grammar : h.lhs \in wanted}}
    IN  IF more = I THEN I ELSE Closure(more)

\* the parser state entered from the state I on the symbol X
Goto(I, X) ==
    Closure({Item(i.g, i.d + 1) :
               i \in {j \in I : j.d < Len(j.g.rhs) /\ j.g.rhs[j.d + 1] = X}})

\* the state of the empty stack
State0 == Closure({Item(g, 0) : g \in {h \in Grammar : h.lhs = "top"}})

Parsing == res = NotReturned /\ ds = NotBuilt

\* the state on top of the state stack
Top == IF stack = <<>> THEN State0 ELSE stack[Len(stack)].state

Lookahead == IF input = <<>> THEN "$end" ELSE Head(input).type

\* the production lhs : syms is complete in the top state and the lookahead
\* may follow lhs
Handle(syms, lhs) ==
    /\ Item([lhs |-> lhs, rhs |-> syms], Len(syms)) \in Top
    /\ Lookahead \in Follow[lhs]

\* pop k symbols and push sym with val, entering the state the state
\* uncovered by the pop goes to on sym
Push(k, sym, val) ==
    LET below == IF Len(stack) = k THEN State0 ELSE stack[Len(stack) - k].state
    IN  Append(SubSeq(stack, 1, Len(stack) - k),
               [sym |-> sym, val |-> val, state |-> Goto(below, sym)])

\* p[i] of a production of k symbols
P(i, k) == stack[Len(stack) - k + i].val

\* pop k symbols and push sym with the value val; an exception raised by
\* the p_* function leaves parser(pattern), and parse(), with it
Reduce(k, sym, val) ==
    /\ stack' = Push(k, sym, val)
    /\ UNCHANGED <<pattern, input, res, ds, test_a>>
    /\ UNCHANGED planvars

ReduceOrRaise(k, sym, val) ==
    IF AnyRaised(val)
    THEN /\ ds' = FirstRaised(val)
         /\ UNCHANGED <<pattern, input, stack, res, test_a>>
         /\ UNCHANGED planvars
    ELSE Reduce(k, sym, val)

Shift ==
    /\ Parsing
    /\ input # <<>>
    /\ Goto(Top, Head(input).type) # {}
    /\ stack' = Push(0, Head(input).type, Head(input).value)
    /\ input' = Tail(input)
    /\ UNCHANGED <<pattern, res, ds, test_a>>
    /\ UNCHANGED planvars

R_top ==
    /\ Parsing /\ Handle(<<"mod">>, "top")
    /\ Reduce(1, "top", p_top(P(1, 1)))

R_decl1 ==
    /\ Parsing /\ Handle(<<"mod", "mod">>, "mod")
    /\ Reduce(2, "mod", p_decl1(P(1, 2), P(2, 2)))

R_decl2 ==
    /\ Parsing /\ Handle(<<"stmt">>, "mod")
    /\ Reduce(1, "mod", p_decl2(P(1, 1)))

R_statement_assign ==
    /\ Parsing /\ Handle(<<"TYPE", "lhs_expression", "EQUALS", "rhs_expression">>, "stmt")
    /\ Reduce(4, "stmt", p_statement_assign(P(2, 4), P(4, 4)))

R_statement_expr ==
    /\ Parsing /\ Handle(<<"rhs_expression">>, "stmt")
    /\ Reduce(1, "stmt", p_statement_expr(P(1, 1)))

R_lhs_expression ==
    /\ Parsing /\ Handle(<<"lhs_expression", "lhs_expression">>, "lhs_expression")
    /\ Reduce(2, "lhs_expression", p_lhs_expression(P(1, 2), P(2, 2)))

R_lhs_expression_node ==
    /\ Parsing /\ Handle(<<"NAME">>, "lhs_expression")
    /\ Reduce(1, "lhs_expression", p_lhs_expression_node(P(1, 1)))

R_rhs_expression_node1 ==
    /\ Parsing
    /\ \E sym \in {"appl", "record"} :
          /\ Handle(<<sym>>, "rhs_expression")
          /\ Reduce(1, "rhs_expression", p_rhs_expression_node1(P(1, 1)))

R_rhs_expression_node2 ==
    /\ Parsing /\ Handle(<<"BIT">>, "rhs_expression")
    /\ Reduce(1, "rhs_expression", p_rhs_expression_node2(P(1, 1)))

R_rhs_expression_node3 ==
    /\ Parsing
    /\ \E sym \in {"NAME", "NUMBER"} :
          /\ Handle(<<sym>>, "rhs_expression")
          /\ Reduce(1, "rhs_expression", p_rhs_expression_node3(P(1, 1)))

R_rhs_expression ==
    /\ Parsing /\ Handle(<<"rhs_expression", "COMMA", "rhs_expression">>, "rhs_expression")
    /\ Reduce(3, "rhs_expression", p_rhs_expression(P(1, 3), P(3, 3)))

R_appl_args__appl__record ==
    /\ Parsing
    /\ \E sym \in {"appl", "record"} :
          /\ Handle(<<sym>>, "appl_args")
          /\ ReduceOrRaise(1, "appl_args", p_appl_args__appl__record(P(1, 1)))

R_appl_args__rhs_expression ==
    /\ Parsing /\ Handle(<<"(", "rhs_expression", ")">>, "appl_args")
    /\ ReduceOrRaise(3, "appl_args", p_appl_args__rhs_expression(P(2, 3)))

R_appl_args__name ==
    /\ Parsing /\ Handle(<<"NAME">>, "appl_args")
    /\ Reduce(1, "appl_args", p_appl_args__name(P(1, 1)))

R_appl_args__bit ==
    /\ Parsing /\ Handle(<<"BIT">>, "appl_args")
    /\ Reduce(1, "appl_args", p_appl_args__bit(P(1, 1)))

R_appl_args__number ==
    /\ Parsing /\ Handle(<<"NUMBER">>, "appl_args")
    /\ Reduce(1, "appl_args", p_appl_args__number(P(1, 1)))

R_appl_args__string ==
    /\ Parsing /\ Handle(<<"STRING">>, "appl_args")
    /\ Reduce(1, "appl_args", p_appl_args__string(P(1, 1)))

R_appl_args ==
    /\ Parsing /\ Handle(<<"appl_args", "COMMA", "appl_args">>, "appl_args")
    /\ Reduce(3, "appl_args", p_appl_args(P(1, 3), P(3, 3)))

R_appl ==
    /\ Parsing
    /\ \E sym \in {"NAME", "BIT"} :
          /\ Handle(<<sym, "(", "appl_args", ")">>, "appl")
          /\ Reduce(4, "appl", p_appl(P(1, 4), P(3, 4)))

R_record ==
    /\ Parsing /\ Handle(<<"LBRACE", "record_opt", "RBRACE">>, "record")
    /\ Reduce(3, "record", p_record(P(2, 3)))

R_record_opt1 ==
    /\ Parsing /\ Handle(<<"record_opt", "SEMI", "record_opt">>, "record_opt")
    /\ Reduce(3, "record_opt", p_record_opt1(P(1, 3), P(3, 3)))

R_record_opt2 ==
    /\ Parsing /\ Handle(<<"record_item">>, "record_opt")
    /\ Reduce(1, "record_opt", p_record_opt2(P(1, 1)))

R_record_opt3 ==
    /\ Parsing /\ Handle(<<"empty">>, "record_opt")
    /\ Reduce(1, "record_opt", p_record_opt3(P(1, 1)))

R_record_name ==
    /\ Parsing
    /\ \E sym \in {"NAME", "BIT", "TYPE"} :
          /\ Handle(<<sym>>, "record_name")
          /\ Reduce(1, "record_name", p_record_name(P(1, 1)))

R_record_item1 ==
    /\ Parsing /\ Handle(<<"record_name", "COLON", "(", "rhs_expression", ")">>, "record_item")
    /\ Reduce(5, "record_item", p_record_item1(P(1, 5), P(4, 5)))

R_record_item2 ==
    /\ Parsing /\ Handle(<<"record_name", "COLON", "rhs_expression">>, "record_item")
    /\ Reduce(3, "record_item", p_record_item2(P(1, 3), P(3, 3)))

\* empty : (nothing)
R_empty ==
    /\ Parsing /\ Handle(<<>>, "empty")
    /\ Reduce(0, "empty", p_empty)

\* no entry of the parsing table for the lookahead in the top state
NoAction ==
    /\ input # <<>> => Goto(Top, Lookahead) = {}
    /\ \A i \in Top : i.d = Len(i.g.rhs) => Lookahead \notin Follow[i.g.lhs]
    /\ ~(input = <<>> /\ Len(stack) = 1 /\ stack[1].sym = "top")

\* p_error(p): on a token DatashapeSyntaxError leaves parser(pattern) and
\* parse(); at the end of the input (p is None) a line is printed, the parser
\* gives up and returns None, and parse() goes on to build_ds(None)
p_error ==
    /\ Parsing /\ NoAction
    /\ IF input # <<>>
       THEN /\ ds' = Raised("DatashapeSyntaxError")
            /\ UNCHANGED res
       ELSE /\ res' = PyNone
            /\ ds' = build_ds(PyNone)
    /\ UNCHANGED <<pattern, input, stack, test_a>>
    /\ UNCHANGED planvars

\* res = parser(pattern); ds = build_ds(res)
parse ==
    /\ Parsing /\ input = <<>> /\ Len(stack) = 1 /\ stack[1].sym = "top"
    /\ res' = P(1, 1)
    /\ ds' = build_ds(P(1, 1))
    /\ UNCHANGED <<pattern, input, stack, test_a>>
    /\ UNCHANGED planvars

\* a = parse(record); b = parse(the record with a trailing ;): the first
\* result is kept in a and the second call begins
test_trailing_semi ==
    /\ test_a = NoCall
    /\ res # NotReturned
    /\ pattern \in SemiTexts
    /\ test_a' = [pattern |-> pattern, res |-> res, ds |-> ds]
    /\ pattern' = TrailingSemi(pattern)
    /\ input' = lexer(TrailingSemi(pattern))
    /\ stack' = <<>>
    /\ res' = NotReturned
    /\ ds' = NotBuilt
    /\ UNCHANGED planvars

ParserInit ==
    /\ PlanInit
    /\ test_a = NoCall
    /\ pattern \in Patterns
    /\ input = lexer(pattern)
    /\ stack = <<>>
    /\ res = NotReturned
    /\ ds = NotBuilt

ParserNext ==
    \/ Shift \/ parse \/ p_error \/ test_trailing_semi
    \/ R_top \/ R_decl1 \/ R_decl2 \/ R_statement_assign \/ R_statement_expr
    \/ R_lhs_expression \/ R_lhs_expression_node
    \/ R_rhs_expression_node1 \/ R_rhs_expression_node2 \/ R_rhs_expression_node3
    \/ R_rhs_expression
    \/ R_appl_args__appl__record \/ R_appl_args__rhs_expression
    \/ R_appl_args__name \/ R_appl_args__bit \/ R_appl_args__number
    \/ R_appl_args__string \/ R_appl_args \/ R_appl
    \/ R_record \/ R_record_opt1 \/ R_record_opt2 \/ R_record_opt3
    \/ R_record_name \/ R_record_item1 \/ R_record_item2 \/ R_empty

ParserSpec == ParserInit /\ [][ParserNext]_vars


----------------------------------------------------------------------------
(* What a source text denotes, read off its lexemes *)

\* the Type a one-lexeme component stands for
LeafType(l) ==
    CASE l \in DOMAIN Numerals -> T_Fixed(PyInt(Numerals[l]))
      [] l \in bits -> T_registry(PyStr(l))
      [] OTHER -> T_TypeVar(PyStr(l))

\* the components of l1 , l2 , ... , lk in source order
Components(text) == [i \in 1..((Len(text) + 1) \div 2) |-> LeafType(text[2 * i - 1])]

\* one component is itself, several are a DataShape
Fold(cs) == IF Len(cs) = 1 THEN cs[1] ELSE T_DataShape(cs)

Built == ds # NotBuilt

\* the number of names between the constructor name and = in type T .. = ..
NumParams(text) == (CHOOSE i \in 1..Len(text) : text[i] = "=") - 3

IsDeclText(text) == Len(text) > 0 /\ text[1] = "type"

\* C8: a record field's right-hand side, and a parenthesized application
\* argument, build to the fold of all their components in source order:
\* {c: r} and {c: (r)} give Record([(c, Fold(r))]), Option((r)) gives
\* Option(Fold(r)); no component is dropped.
C8_SubExpressionFullyBuilt ==
    Built =>
      \A r \in ShortRhsTexts :
        /\ pattern \in {<<"{", "c", ":">> \o r \o <<"}">>,
                        <<"{", "c", ":", "(">> \o r \o <<")", "}">>}
             => ds = T_Record(<<<<PyStr("c"), Fold(Components(r))>>>>)
        /\ pattern = <<"Option", "(", "(">> \o r \o <<")", ")">>
             => ds = T_Apply("Option", <<Fold(Components(r))>>)

\* C9: an unparametrized declaration type T = r and a bare instance r build
\* to the fold of the components of r in source order (one component: that
\* component's Type; several: DataShape of all of them), whichever way the
\* commas were reduced.
C9_FoldOnce ==
    Built =>
      \A r \in RhsTexts :
        pattern \in {r, DeclText(0, r)} => ds = Fold(Components(r))

\* a, int, 2 built to the DataShape of its three components
C9_Witness ==
    /\ Built
    /\ pattern = <<"a", ",", "int", ",", "2">>
    /\ res.kind = "tyinst" /\ Len(res.conargs) = 3
    /\ ds = T_DataShape(<<T_TypeVar(PyStr("a")), T_registry(PyStr("int")),
                          T_Fixed(PyInt(2))>>)

C11_TrailingSemiNoOp ==
    (test_a # NoCall /\ (res # NotReturned \/ Built)) =>
      /\ pattern = TrailingSemi(test_a.pattern)
      /\ res = test_a.res
      /\ ds = test_a.ds

\* {a: int; b: float;} after {a: int; b: float}: both are the two fields
C11_Witness ==
    /\ test_a.pattern = <<"{", "a", ":", "int", ";", "b", ":", "float", "}">>
    /\ pattern = <<"{", "a", ":", "int", ";", "b", ":", "float", ";", "}">>
    /\ res # NotReturned /\ res = test_a.res
    /\ Len(res.conargs[1].elts) = 2
    /\ ds = T_Record(<<<<PyStr("a"), T_registry(PyStr("int"))>>,
                       <<PyStr("b"), T_registry(PyStr("float"))>>>>)


\* C12: when the input ends before a statement is complete, the parser
\* raises a failure of its own, other than the syntax error of a malformed
\* token, and returns no parse result to its caller.
C12_EofFailsDistinctly ==
    (pattern \in TruncatedTexts /\ (Built \/ res # NotReturned)) =>
      /\ res = NotReturned
      /\ IsRaised(ds)
      /\ ds.exc \notin {"DatashapeSyntaxError", "ValueError"}

\* the annotated term of a bound, read off the graph node
RefBound(b) ==
    CASE b.vtype = "int" -> NewAInt(b.val, b.id)
      [] b.vtype = "float" -> NewAFloat(b.val, b.id)
      [] OTHER -> NewATerm(b.val, b.id)

NamedTerms(table) == {t \in DOMAIN table : t.cls \notin {"AInt", "AFloat"}}

\* C14: over any sequence of visits on one InstructionGen the counter never
\* decreases; the names in the table are among %0 .. %(n-1) and a visit
\* hands out only names from the old counter on, so none is issued twice;
\* no two distinct terms hold the same name; no term leaves the table; and
\* symbols has one entry per table entry.
C14_NamesUniqueAndMonotone ==
    [][/\ n' >= n
       /\ DOMAIN _vartable \subseteq DOMAIN _vartable'
       /\ \A t \in NamedTerms(_vartable') :
             /\ _vartable'[t] \in {Key(k) : k \in 0..(n' - 1)}
             /\ \/ t \in DOMAIN _vartable /\ _vartable'[t] = _vartable[t]
                \/ _vartable'[t] \in {Key(k) : k \in n..(n' - 1)}
       /\ \A t1, t2 \in NamedTerms(_vartable') :
             t1 # t2 => _vartable'[t1] # _vartable'[t2]
       /\ Cardinality(DOMAIN symbols') = Cardinality(DOMAIN _vartable')]_vars

\* after a + b and a further visit of a: a was renamed, b kept %1, the sum %2
C14_Witness ==
    /\ n = 4
    /\ {A1, A2, Op("Arithmetic", "Add", <<A1, A2>>)} \subseteq DOMAIN _vartable
    /\ _vartable[A1] = "%3" /\ _vartable[A2] = "%1"
    /\ _vartable[Op("Arithmetic", "Add", <<A1, A2>>)] = "%2"
    /\ Cardinality(DOMAIN symbols) = 3

====
